---- MODULE Spec2Model ----
(***************************************************************************)
(* Model of two services of the portfolio backend:                         *)
(*   - ImportService  (apps/api/src/app/import/import.service.ts)          *)
(*   - InfoService    (apps/api/src/app/info/info.service.ts)              *)
(* Spec     : concurrent import requests over one order store.             *)
(* SpecInfo : info requests over the configuration, the cache, the user    *)
(*            counters and the GitHub endpoints.                           *)
(***************************************************************************)
EXTENDS Integers, Sequences, FiniteSets, TLC

VARIABLES
  store,     \* the Order table: the rows each request created, in creation order
  imp,       \* one record per import request
  config,    \* ConfigurationService: the value of each option
  cache,     \* Redis: the text stored under the key STATISTICS
  env,       \* the User table, the Property table, which GitHub endpoints
             \* answer, whether a Redis read succeeds
  response,  \* what the last call of InfoService.get() returned
  lastCall,  \* what the last call of get() read, counted and wrote
  computed   \* the last statistics computed: the result and the text cached

importVars == <<store, imp>>
infoVars == <<config, cache, env, response, lastCall, computed>>
vars == <<store, imp, config, cache, env, response, lastCall, computed>>

----------------------------------------------------------------------------
(* Bounds of the model *)

MaxBatchLen == 2

(* Program constant *)
MAX_ORDERS_TO_IMPORT == 20

----------------------------------------------------------------------------
(* Import: inputs *)

\* Two import requests, each one call of import(); they may overlap.
Requests == {"r1", "r2"}
Users == {"u1", "u2"}

\* The users are interchangeable: the first request is u1's.
UsersOf(p) == IF p = "r1" THEN {"u1"} ELSE Users

\* An ISO date string is modelled by its day and hour components.
IsoDate(d, h) == [day |-> d, hour |-> h]

Base ==
  [accountId |-> "a1", currency |-> "USD", dataSource |-> "YAHOO",
   date |-> IsoDate(1, 0), fee |-> 0, quantity |-> 1, symbol |-> "AAPL",
   type |-> "BUY", unitPrice |-> 10]

\* Candidate orders: the base order, the same order later on the same day and
\* on another account, the same order on the next day with another fee, and
\* the same order for a symbol the data provider does not know.
Candidates ==
  { Base,
    [Base EXCEPT !.date = IsoDate(1, 9), !.accountId = "a2"],
    [Base EXCEPT !.date = IsoDate(2, 0), !.fee = 1],
    [Base EXCEPT !.symbol = "XXXX"] }

SeqsUpTo(S, n) == UNION { [1..k -> S] : k \in 0..n }

Repeat(o, n) == [i \in 1..n |-> o]

Batches ==
  SeqsUpTo(Candidates, MaxBatchLen)
    \cup { Repeat(Base, MAX_ORDERS_TO_IMPORT),
           Repeat(Base, MAX_ORDERS_TO_IMPORT + 1) }

----------------------------------------------------------------------------
(* Import: date-fns *)

\* parseISO: the timestamp (in hours) of an ISO date string.
parseISO(s) == s.day * 24 + s.hour

startOfDay(t) == t - (t % 24)

\* Mutant: the dates are compared as exact timestamps.
MutIsSameDayExact(a, b) == a = b

isSameDay(a, b) == startOfDay(a) = startOfDay(b)

----------------------------------------------------------------------------
(* Import: collaborators *)

\* (dataSource, symbol) pairs the data provider has a record for.
KnownSymbols == { <<"YAHOO", "AAPL">> }

\* dataProviderService.get(items): a mapping keyed by symbol, with no entry
\* for a pair the provider does not know.
dataProviderGet(items) ==
  [s \in { i.symbol : i \in { j \in items :
                               <<j.dataSource, j.symbol>> \in KnownSymbols } }
     |-> [symbol |-> s]]

RECURSIVE InsertByDateDesc(_, _)
InsertByDateDesc(row, sorted) ==
  IF sorted = <<>> THEN <<row>>
  ELSE IF row.date > Head(sorted).date THEN <<row>> \o sorted
  ELSE <<Head(sorted)>> \o InsertByDateDesc(row, Tail(sorted))

RECURSIVE SortByDateDesc(_)
SortByDateDesc(rows) ==
  IF rows = <<>> THEN <<>>
  ELSE InsertByDateDesc(Head(rows), SortByDateDesc(Tail(rows)))

RECURSIVE AllRows(_, _)
AllRows(table, ps) ==
  IF ps = {} THEN <<>>
  ELSE LET p == CHOOSE q \in ps : TRUE
       IN table[p] \o AllRows(table, ps \ {p})

\* orderService.orders({orderBy: {date: 'desc'}, where: {userId}})
orderServiceOrders(table, userId) ==
  SortByDateDesc(SelectSeq(AllRows(table, DOMAIN table),
                           LAMBDA r : r.userId = userId))

\* orderService.createOrder(data): the row the persistence layer stores.
orderServiceCreateOrder(data) ==
  [userId |-> data.User.connect.id,
   accountId |-> data.Account.connect.id_userId.id,
   currency |-> data.currency, dataSource |-> data.dataSource,
   date |-> data.date, fee |-> data.fee, quantity |-> data.quantity,
   symbol |-> data.symbol, type |-> data.type, unitPrice |-> data.unitPrice]

----------------------------------------------------------------------------
(* Import: ImportService *)

NoError == [kind |-> "none"]
TooManyTransactions == [kind |-> "Too many transactions"]
DuplicateTransaction(index) ==
  [kind |-> "is a duplicate transaction", index |-> index]
InvalidSymbol(index, symbol, dataSource) ==
  [kind |-> "symbol is not valid for the specified data source",
   index |-> index, symbol |-> symbol, dataSource |-> dataSource]
CreateOrderError == [kind |-> "createOrder rejected"]

Idle ==
  [pc |-> "idle", orders |-> <<>>, userId |-> "u1",
   existingOrders |-> <<>>, index |-> 0, error |-> NoError,
   calls |-> <<>>, reads |-> 0, lookups |-> 0]

\* Mutant: the size check is off by one.
MutTooManyOrdersOffByOne(orders) == Len(orders) > MAX_ORDERS_TO_IMPORT + 1

\* validateOrders: orders?.length > MAX_ORDERS_TO_IMPORT
tooManyOrders(orders) == Len(orders) > MAX_ORDERS_TO_IMPORT

\* validateOrders: the predicate of existingOrders.find(...)
matchesOrder(order, candidate) ==
  /\ order.currency = candidate.currency
  /\ order.dataSource = candidate.dataSource
  /\ isSameDay(order.date, parseISO(candidate.date))
  /\ order.fee = candidate.fee
  /\ order.quantity = candidate.quantity
  /\ order.symbol = candidate.symbol
  /\ order.type = candidate.type
  /\ order.unitPrice = candidate.unitPrice

\* validateOrders: duplicateOrder is truthy
hasDuplicateOrder(existingOrders, candidate) ==
  \E k \in 1..Len(existingOrders) : matchesOrder(existingOrders[k], candidate)

\* Mutant: the lookup result is compared with null, which a missing key
\* never is.
MutSymbolUndefinedNull(result, symbol) ==
  symbol \in DOMAIN result /\ result[symbol] = [symbol |-> "null"]

\* validateOrders: result[symbol] === undefined
symbolUndefined(result, symbol) == symbol \notin DOMAIN result

\* Mutant: the validation loop returns after its first iteration.
MutValidationPassedAfterFirst(r) == r.index >= 1 \/ r.index = Len(r.orders)

\* validateOrders: the for loop over orders.entries() has run to its end
validationPassed(r) == r.index = Len(r.orders)

\* Mutant: the order is linked to the account whose id is the user's id.
MutCreateOrderDataWrongAccount(o, userId) ==
  [Account |-> [connect |-> [id_userId |-> [userId |-> userId,
                                             id |-> userId]]],
   currency |-> o.currency, dataSource |-> o.dataSource, fee |-> o.fee,
   quantity |-> o.quantity, symbol |-> o.symbol, type |-> o.type,
   unitPrice |-> o.unitPrice, date |-> parseISO(o.date),
   User |-> [connect |-> [id |-> userId]]]

\* import: the argument of orderService.createOrder
createOrderData(o, userId) ==
  [Account |-> [connect |-> [id_userId |-> [userId |-> userId,
                                             id |-> o.accountId]]],
   currency |-> o.currency, dataSource |-> o.dataSource, fee |-> o.fee,
   quantity |-> o.quantity, symbol |-> o.symbol, type |-> o.type,
   unitPrice |-> o.unitPrice, date |-> parseISO(o.date),
   User |-> [connect |-> [id |-> userId]]]

\* import: the write loop; import resolves when it has run to its end
afterCreateOrder(r) ==
  IF r.index = Len(r.orders) THEN [r EXCEPT !.pc = "done"] ELSE r

\* import: validateOrders has returned, the write loop starts
afterValidation(r) ==
  IF validationPassed(r)
  THEN afterCreateOrder([r EXCEPT !.pc = "write", !.index = 0])
  ELSE r

\* import({orders, userId}) is called; validateOrders checks the batch size
\* before its first await.
importCall(p, orders, userId) ==
  /\ imp[p].pc = "idle"
  /\ imp' = [imp EXCEPT ![p] =
       IF tooManyOrders(orders)
       THEN [Idle EXCEPT !.pc = "failed", !.orders = orders,
                         !.userId = userId,
                         !.error = TooManyTransactions]
       ELSE [Idle EXCEPT !.pc = "read", !.orders = orders,
                         !.userId = userId]]
  /\ UNCHANGED <<store, infoVars>>

\* validateOrders: await this.orderService.orders(...)
readExistingOrders(p) ==
  /\ imp[p].pc = "read"
  /\ imp' = [imp EXCEPT ![p] =
       afterValidation(
         [imp[p] EXCEPT
            !.pc = "validate",
            !.existingOrders = orderServiceOrders(store, imp[p].userId),
            !.reads = @ + 1])]
  /\ UNCHANGED <<store, infoVars>>

\* validateOrders: one iteration of the loop over orders.entries()
validateOrder(p) ==
  LET r == imp[p]
      index == r.index
      o == r.orders[index + 1]
      result == dataProviderGet({[dataSource |-> o.dataSource,
                                  symbol |-> o.symbol]})
  IN
  /\ r.pc = "validate"
  /\ imp' = [imp EXCEPT ![p] =
       IF hasDuplicateOrder(r.existingOrders, o)
       THEN [r EXCEPT !.pc = "failed", !.error = DuplicateTransaction(index)]
       ELSE IF symbolUndefined(result, o.symbol)
       THEN [r EXCEPT !.pc = "failed", !.lookups = @ + 1,
                      !.error = InvalidSymbol(index, o.symbol, o.dataSource)]
       ELSE afterValidation([r EXCEPT !.index = @ + 1, !.lookups = @ + 1])]
  /\ UNCHANGED <<store, infoVars>>

\* import: one iteration of the write loop, createOrder resolves
createOrder(p) ==
  LET r == imp[p]
      data == createOrderData(r.orders[r.index + 1], r.userId)
  IN
  /\ r.pc = "write"
  /\ store' = [store EXCEPT ![p] = Append(@, orderServiceCreateOrder(data))]
  /\ imp' = [imp EXCEPT ![p] =
       afterCreateOrder([r EXCEPT !.calls = Append(@, data),
                                  !.index = @ + 1])]
  /\ UNCHANGED infoVars

\* Mutant: the write loop remembers the rejection and goes on.
MutCreateOrderRejectsContinues(p) ==
  LET r == imp[p]
      data == createOrderData(r.orders[r.index + 1], r.userId)
  IN
  /\ r.pc = "write"
  /\ imp' = [imp EXCEPT ![p] =
       afterCreateOrder([r EXCEPT !.calls = Append(@, data),
                                  !.index = @ + 1,
                                  !.error = CreateOrderError])]
  /\ UNCHANGED <<store, infoVars>>

\* import: one iteration of the write loop, createOrder rejects
createOrderRejects(p) ==
  LET r == imp[p]
      data == createOrderData(r.orders[r.index + 1], r.userId)
  IN
  /\ r.pc = "write"
  /\ imp' = [imp EXCEPT ![p].calls = Append(@, data), ![p].pc = "failed",
                        ![p].error = CreateOrderError]
  /\ UNCHANGED <<store, infoVars>>

ImportInit ==
  /\ store = [p \in Requests |-> <<>>]
  /\ imp = [p \in Requests |-> Idle]

ImportNext ==
  \/ \E p \in Requests, orders \in Batches :
        \E userId \in UsersOf(p) : importCall(p, orders, userId)
  \/ \E p \in Requests : readExistingOrders(p)
  \/ \E p \in Requests : validateOrder(p)
  \/ \E p \in Requests : createOrder(p)
  \/ \E p \in Requests : createOrderRejects(p)

----------------------------------------------------------------------------
(* Info: values *)

\* A JavaScript value that may be undefined: <<>> is undefined, <<v>> is v.
Undefined == <<>>
Def(v) == <<v>>

\* JavaScript null.
Null == [null |-> TRUE]

\* obj[k]: undefined for a key the object does not own.
Prop(obj, k) == IF k \in DOMAIN obj THEN obj[k] ELSE Undefined

----------------------------------------------------------------------------
(* Info: collaborators *)

Flags ==
  {"ENABLE_FEATURE_BLOG", "ENABLE_FEATURE_IMPORT",
   "ENABLE_FEATURE_SOCIAL_LOGIN", "ENABLE_FEATURE_STATISTICS",
   "ENABLE_FEATURE_SUBSCRIPTION"}

\* The configurations: every assignment of the five flags, and the
\* publishable key.
Configs ==
  { [k \in Flags \cup {"STRIPE_PUBLIC_KEY"} |->
       IF k = "STRIPE_PUBLIC_KEY" THEN "pk_test" ELSE fl[k]] :
    fl \in [Flags -> BOOLEAN] }

\* configurationService.get(name)
configurationServiceGet(cfg, name) == cfg[name]

\* The permission tags of @ghostfolio/common/permissions.
permissions ==
  [enableBlog |-> "enableBlog", enableImport |-> "enableImport",
   enableSocialLogin |-> "enableSocialLogin",
   enableStatistics |-> "enableStatistics",
   enableSubscription |-> "enableSubscription"]

\* The User table: Analytics is <<>> (none) or <<days since its update>>,
\* createdAt is the days since the user was created.
UA == [id |-> 1, Analytics |-> <<0>>, createdAt |-> 90]
UB == [id |-> 2, Analytics |-> <<3>>, createdAt |-> 3]
UC == [id |-> 3, Analytics |-> <<>>, createdAt |-> 2]
UD == [id |-> 4, Analytics |-> <<10>>, createdAt |-> 20]
UE == [id |-> 5, Analytics |-> <<40>>, createdAt |-> 5]
UF == [id |-> 6, Analytics |-> <<50>>, createdAt |-> 6]

UserTables == { {UA, UC}, {UA, UB, UC, UD, UE, UF} }

\* The Property table: no STRIPE_CONFIG row, or one.
PropertyTables ==
  { {}, {[key |-> "STRIPE_CONFIG",
          value |-> [kind |-> "object",
                     members |-> << <<"couponId", <<"c1">> >> >>]]} }

GitHubEndpoints == {"contributors", "stargazers"}

Envs ==
  [users : UserTables, properties : PropertyTables,
   gitHub : SUBSET GitHubEndpoints, redisReadable : BOOLEAN]

\* The platforms, by name ascending (prisma.platform.findMany).
platformFindMany ==
  <<[id |-> "p2", name |-> "Alpha"], [id |-> "p1", name |-> "Beta"]>>

\* exchangeRateDataService.getCurrencies()
getCurrencies == <<"CHF", "EUR", "USD">>

\* dataProviderService.getPrimaryDataSource()
getPrimaryDataSource == "YAHOO"

\* jwtService.sign(payload)
jwtSign(payload) == [signed |-> payload]

\* dataGatheringService.getLastDataGathering(): none recorded yet
dataGatheringServiceGetLastDataGathering == Undefined

\* The texts the cache may hold under STATISTICS: no entry, text that does
\* not parse, the text null, or the text of an object (its members in order).
NoEntry == [kind |-> "absent"]
InvalidText == [kind |-> "invalid", text |-> "<html>"]
NullText == [kind |-> "literal", text |-> "null"]
ObjectText(members) == [kind |-> "object", members |-> members]

\* redisCacheService.get(key): rejects while Redis cannot be read.
redisCacheServiceGet(cch, e) ==
  IF e.redisReadable THEN [rejected |-> FALSE, value |-> cch]
  ELSE [rejected |-> TRUE, value |-> NoEntry]

\* redisCacheService.set(key, value)
redisCacheServiceSet(cch, value) == value

----------------------------------------------------------------------------
(* Info: JSON *)

\* The keys of the statistics object literal, in its order.
StatisticsKeys ==
  <<"activeUsers1d", "activeUsers7d", "activeUsers30d", "gitHubContributors",
    "gitHubStargazers", "newUsers30d">>

\* JSON.stringify(obj): the members whose value is not undefined, in order.
JSONstringify(obj) ==
  ObjectText(SelectSeq([i \in 1..Len(StatisticsKeys) |->
                          <<StatisticsKeys[i], Prop(obj, StatisticsKeys[i])>>],
                       LAMBDA m : m[2] # Undefined))

\* JSON.parse(text): throws on text that is no JSON; a missing entry reads
\* as null.
JSONparse(text) ==
  CASE text.kind = "object" ->
         [threw |-> FALSE,
          value |-> [k \in { text.members[i][1] : i \in 1..Len(text.members) }
                       |-> LET i == CHOOSE j \in 1..Len(text.members) :
                                       text.members[j][1] = k
                           IN text.members[i][2]]]
    [] text.kind = "literal" -> [threw |-> FALSE, value |-> Null]
    [] text.kind = "absent" -> [threw |-> FALSE, value |-> Null]
    [] OTHER -> [threw |-> TRUE, value |-> Null]

----------------------------------------------------------------------------
(* Info: InfoService *)

DEMO_USER_ID == "9b112b4d-3b7d-4bad-9bdd-3b0f7b4dac2f"
CACHE_KEY_STATISTICS == "STATISTICS"

countActiveUsers(e, aDays) ==
  Cardinality({ u \in e.users :
                  u.Analytics # <<>> /\ u.Analytics[1] < aDays })

countNewUsers(e, aDays) ==
  Cardinality({ u \in e.users : u.Analytics # <<>> /\ u.createdAt < aDays })

countGitHubContributors(e) ==
  IF "contributors" \in e.gitHub THEN Def(7) ELSE Undefined

countGitHubStargazers(e) ==
  IF "stargazers" \in e.gitHub THEN Def(9) ELSE Undefined

getDemoAuthToken == jwtSign([id |-> DEMO_USER_ID])

getLastDataGathering ==
  LET lastDataGathering == dataGatheringServiceGetLastDataGathering
  IN IF lastDataGathering = Undefined THEN Null ELSE lastDataGathering[1]

\* get: the globalPermissions array
globalPermissions(cfg) ==
  (IF configurationServiceGet(cfg, "ENABLE_FEATURE_BLOG")
   THEN <<permissions.enableBlog>> ELSE <<>>)
  \o (IF configurationServiceGet(cfg, "ENABLE_FEATURE_IMPORT")
      THEN <<permissions.enableImport>> ELSE <<>>)
  \o (IF configurationServiceGet(cfg, "ENABLE_FEATURE_SOCIAL_LOGIN")
      THEN <<permissions.enableSocialLogin>> ELSE <<>>)
  \o (IF configurationServiceGet(cfg, "ENABLE_FEATURE_STATISTICS")
      THEN <<permissions.enableStatistics>> ELSE <<>>)
  \o (IF configurationServiceGet(cfg, "ENABLE_FEATURE_SUBSCRIPTION")
      THEN <<permissions.enableSubscription>> ELSE <<>>)

\* get: info.stripePublicKey
stripePublicKey(cfg) ==
  IF configurationServiceGet(cfg, "ENABLE_FEATURE_SUBSCRIPTION")
  THEN Def(configurationServiceGet(cfg, "STRIPE_PUBLIC_KEY"))
  ELSE Undefined

\* getStatistics: the try block, the cache read and its parse
readStatistics(cch, e) ==
  LET got == redisCacheServiceGet(cch, e)
      parsed == JSONparse(got.value)
  IN IF got.rejected
     THEN [rejected |-> TRUE, text |-> got.value, threw |-> TRUE,
           value |-> Null]
     ELSE [rejected |-> FALSE, text |-> got.value, threw |-> parsed.threw,
           value |-> parsed.value]

\* getStatistics: the counters it awaits, in its order, with what each
\* returns
counterCalls(e) ==
  <<[counter |-> "countActiveUsers(1)",
     returned |-> Def(countActiveUsers(e, 1))],
    [counter |-> "countActiveUsers(7)",
     returned |-> Def(countActiveUsers(e, 7))],
    [counter |-> "countActiveUsers(30)",
     returned |-> Def(countActiveUsers(e, 30))],
    [counter |-> "countNewUsers(30)",
     returned |-> Def(countNewUsers(e, 30))],
    [counter |-> "countGitHubContributors",
     returned |-> countGitHubContributors(e)],
    [counter |-> "countGitHubStargazers",
     returned |-> countGitHubStargazers(e)]>>

\* getStatistics: the object built from what the six counters returned
computeStatistics(counted) ==
  [activeUsers1d |-> counted[1].returned,
   activeUsers7d |-> counted[2].returned,
   activeUsers30d |-> counted[3].returned,
   gitHubContributors |-> counted[5].returned,
   gitHubStargazers |-> counted[6].returned,
   newUsers30d |-> counted[4].returned]

StatisticsOff(cch) ==
  [threw |-> FALSE, statistics |-> Undefined, cache |-> cch,
   read |-> <<>>, counterCalls |-> <<>>, cacheWrites |-> <<>>]

StatisticsHit(cch, attempt) ==
  [threw |-> FALSE, statistics |-> Def(attempt.value), cache |-> cch,
   read |-> <<attempt>>, counterCalls |-> <<>>, cacheWrites |-> <<>>]

StatisticsComputed(cch, e, attempt) ==
  LET counted == counterCalls(e)
      statistics == computeStatistics(counted)
      text == JSONstringify(statistics)
  IN [threw |-> FALSE, statistics |-> Def(statistics),
      cache |-> redisCacheServiceSet(cch, text),
      read |-> <<attempt>>, counterCalls |-> counted,
      cacheWrites |-> <<[key |-> CACHE_KEY_STATISTICS, value |-> text]>>]

\* Mutant: the cached statistics are never used.
MutGetStatisticsNoCache(cfg, cch, e) ==
  IF ~configurationServiceGet(cfg, "ENABLE_FEATURE_STATISTICS")
  THEN StatisticsOff(cch)
  ELSE StatisticsComputed(cch, e, readStatistics(cch, e))

\* Mutant: the failure of the cache read or of its parse is not caught.
MutGetStatisticsNoCatch(cfg, cch, e) ==
  IF ~configurationServiceGet(cfg, "ENABLE_FEATURE_STATISTICS")
  THEN StatisticsOff(cch)
  ELSE LET attempt == readStatistics(cch, e)
       IN IF attempt.threw
          THEN [threw |-> TRUE, statistics |-> Undefined, cache |-> cch,
                read |-> <<attempt>>, counterCalls |-> <<>>,
                cacheWrites |-> <<>>]
          ELSE IF attempt.value # Null THEN StatisticsHit(cch, attempt)
          ELSE StatisticsComputed(cch, e, attempt)

\* getStatistics
getStatistics(cfg, cch, e) ==
  IF ~configurationServiceGet(cfg, "ENABLE_FEATURE_STATISTICS")
  THEN StatisticsOff(cch)
  ELSE LET attempt == readStatistics(cch, e)
       IN IF ~attempt.threw /\ attempt.value # Null
          THEN StatisticsHit(cch, attempt)
          ELSE StatisticsComputed(cch, e, attempt)

\* Mutant: the subscriptions are gated by the statistics flag.
MutGetSubscriptionsWrongFlag(cfg, e) ==
  IF ~configurationServiceGet(cfg, "ENABLE_FEATURE_STATISTICS")
  THEN Undefined
  ELSE IF e.properties # {}
  THEN Def(<<JSONparse((CHOOSE row \in e.properties : TRUE).value).value>>)
  ELSE Def(<<>>)

\* getSubscriptions
getSubscriptions(cfg, e) ==
  IF ~configurationServiceGet(cfg, "ENABLE_FEATURE_SUBSCRIPTION")
  THEN Undefined
  ELSE IF e.properties # {}
  THEN Def(<<JSONparse((CHOOSE row \in e.properties : TRUE).value).value>>)
  ELSE Def(<<>>)

\* get: the InfoItem it returns, with the effects of getStatistics
get(cfg, cch, e) ==
  LET stats == getStatistics(cfg, cch, e)
  IN [threw |-> stats.threw,
      info |->
        [stripePublicKey |-> stripePublicKey(cfg),
         globalPermissions |-> globalPermissions(cfg),
         platforms |-> platformFindMany,
         currencies |-> getCurrencies,
         demoAuthToken |-> getDemoAuthToken,
         lastDataGathering |-> getLastDataGathering,
         primaryDataSource |-> getPrimaryDataSource,
         statistics |-> stats.statistics,
         subscriptions |-> getSubscriptions(cfg, e)],
      cache |-> stats.cache,
      call |-> [statisticsEnabled |->
                  configurationServiceGet(cfg, "ENABLE_FEATURE_STATISTICS"),
                threw |-> stats.threw, read |-> stats.read,
                counterCalls |-> stats.counterCalls,
                cacheWrites |-> stats.cacheWrites]]

NoResponse == [none |-> TRUE]
NoCall ==
  [statisticsEnabled |-> FALSE, threw |-> FALSE, read |-> <<>>,
   counterCalls |-> <<>>, cacheWrites |-> <<>>]
NothingComputed == [none |-> TRUE]

\* One call of InfoService.get()
infoGet ==
  LET out == get(config, cache, env)
  IN /\ response' = IF out.threw THEN NoResponse ELSE out.info
     /\ cache' = out.cache
     /\ lastCall' = out.call
     /\ computed' =
          IF out.call.cacheWrites # <<>>
          THEN [statistics |-> out.info.statistics[1],
                written |-> out.call.cacheWrites[1].value]
          ELSE computed
     /\ UNCHANGED <<config, env, importVars>>

\* Users sign up, come back or stay away.
usersChange ==
  /\ \E t \in UserTables \ {env.users} : env' = [env EXCEPT !.users = t]
  /\ UNCHANGED <<config, cache, response, lastCall, computed, importVars>>

\* The STRIPE_CONFIG property is set or removed.
propertiesChange ==
  /\ \E t \in PropertyTables \ {env.properties} :
        env' = [env EXCEPT !.properties = t]
  /\ UNCHANGED <<config, cache, response, lastCall, computed, importVars>>

\* A GitHub endpoint starts or stops answering.
gitHubChange ==
  /\ \E g \in (SUBSET GitHubEndpoints) \ {env.gitHub} :
        env' = [env EXCEPT !.gitHub = g]
  /\ UNCHANGED <<config, cache, response, lastCall, computed, importVars>>

\* Redis starts or stops answering reads.
redisChange ==
  /\ env' = [env EXCEPT !.redisReadable = ~@]
  /\ UNCHANGED <<config, cache, response, lastCall, computed, importVars>>

\* The cache entry expires or is evicted.
cacheExpires ==
  /\ cache # NoEntry
  /\ cache' = NoEntry
  /\ UNCHANGED <<config, env, response, lastCall, computed, importVars>>

\* Something else stores text under the key.
cacheOverwritten ==
  /\ \E text \in {InvalidText, NullText} \ {cache} : cache' = text
  /\ UNCHANGED <<config, env, response, lastCall, computed, importVars>>

----------------------------------------------------------------------------
(* Specifications *)

InfoIdle ==
  /\ cache = NoEntry
  /\ env = [users |-> {UA, UC}, properties |-> {},
            gitHub |-> GitHubEndpoints, redisReadable |-> TRUE]
  /\ response = NoResponse
  /\ lastCall = NoCall
  /\ computed = NothingComputed

\* Import requests; the info service is not called.
Init ==
  /\ ImportInit
  /\ config \in { c \in Configs : \A f \in Flags : c[f] }
  /\ InfoIdle

Next == ImportNext

Spec == Init /\ [][Next]_vars

\* Info requests under any configuration; no import is made.
InitInfo ==
  /\ ImportInit
  /\ config \in Configs
  /\ InfoIdle

NextInfo ==
  \/ infoGet
  \/ usersChange
  \/ propertiesChange
  \/ gitHubChange
  \/ redisChange
  \/ cacheExpires
  \/ cacheOverwritten

SpecInfo == InitInfo /\ [][NextInfo]_vars

----------------
(* Import: the vocabulary of the claims *)

Finished(r) == r.pc \in {"done", "failed"}

\* The dedup tuple of a persisted row and of a candidate: (currency,
\* dataSource, day, fee, quantity, symbol, type, unitPrice).
RowTuple(row) ==
  <<row.currency, row.dataSource, row.date \div 24, row.fee, row.quantity,
    row.symbol, row.type, row.unitPrice>>

CandidateTuple(o) ==
  <<o.currency, o.dataSource, o.date.day, o.fee, o.quantity, o.symbol,
    o.type, o.unitPrice>>

\* Candidate i of request r equals an order that existed for r's user when r
\* read the user's orders.
EqualsExisting(r, i) ==
  \E k \in 1..Len(r.existingOrders) :
     /\ r.existingOrders[k].userId = r.userId
     /\ RowTuple(r.existingOrders[k]) = CandidateTuple(r.orders[i])

\* Candidate i's (dataSource, symbol) has an entry in the lookup result.
InLookup(r, i) ==
  <<r.orders[i].dataSource, r.orders[i].symbol>> \in KnownSymbols

\* No candidate before i fails a check.
FirstFailing(r, i) ==
  \A j \in 1..(i - 1) : ~EqualsExisting(r, j) /\ InLookup(r, j)

\* The createOrder call and the persisted record the claims expect for
\* candidate o of user u.
ExpectedCall(o, u) ==
  [Account |-> [connect |-> [id_userId |-> [userId |-> u, id |-> o.accountId]]],
   currency |-> o.currency, dataSource |-> o.dataSource, fee |-> o.fee,
   quantity |-> o.quantity, symbol |-> o.symbol, type |-> o.type,
   unitPrice |-> o.unitPrice, date |-> o.date.day * 24 + o.date.hour,
   User |-> [connect |-> [id |-> u]]]

ExpectedRow(o, u) ==
  [userId |-> u, accountId |-> o.accountId, currency |-> o.currency,
   dataSource |-> o.dataSource, date |-> o.date.day * 24 + o.date.hour,
   fee |-> o.fee, quantity |-> o.quantity, symbol |-> o.symbol,
   type |-> o.type, unitPrice |-> o.unitPrice]

----------------------------------------------------------------------------
(* Import: claims *)

\* C1: an import of more than 20 orders fails with 'Too many transactions'
\* before any read of the existing orders, any data-provider lookup and any
\* createOrder call, and persists nothing.
C1_TooManyFailsFirst ==
  \A p \in Requests :
     (imp[p].pc # "idle" /\ Len(imp[p].orders) > 20) =>
        /\ imp[p].pc = "failed"
        /\ imp[p].error = [kind |-> "Too many transactions"]
        /\ imp[p].reads = 0
        /\ imp[p].lookups = 0
        /\ imp[p].calls = <<>>
        /\ store[p] = <<>>

C1_Witness ==
  \E p \in Requests : imp[p].pc = "failed" /\ Len(imp[p].orders) = 21

\* C2: the first createOrder call of an import happens only after every
\* candidate of the batch has passed the duplicate check and the symbol
\* check; an import with a candidate that fails either check makes no
\* createOrder call and persists nothing.
C2_ValidationAllOrNothing ==
  \A p \in Requests :
     /\ imp[p].calls # <<>> =>
           \A i \in 1..Len(imp[p].orders) :
              ~EqualsExisting(imp[p], i) /\ InLookup(imp[p], i)
     /\ imp[p].error.kind \in
           {"is a duplicate transaction",
            "symbol is not valid for the specified data source"} =>
           imp[p].calls = <<>> /\ store[p] = <<>>

C2_Witness ==
  \E p \in Requests :
     /\ imp[p].pc = "failed"
     /\ Len(imp[p].orders) = 2
     /\ ~EqualsExisting(imp[p], 1) /\ InLookup(imp[p], 1)
     /\ ~InLookup(imp[p], 2)

\* C3 (as stated): every candidate of a batch of at most 20 that equals an
\* existing order of the user makes the import fail with a duplicate error
\* carrying that candidate's index, and nothing of the batch is persisted.
C3_Original ==
  \A p \in Requests :
     (Finished(imp[p]) /\ Len(imp[p].orders) <= 20) =>
        \A i \in 1..Len(imp[p].orders) :
           EqualsExisting(imp[p], i) =>
              /\ imp[p].pc = "failed"
              /\ imp[p].error =
                   [kind |-> "is a duplicate transaction", index |-> i - 1]
              /\ store[p] = <<>>

\* C3 (amended): a batch of at most 20 with a candidate that equals an order
\* the user had when the import read them fails and persists nothing; the
\* error is the duplicate error carrying that candidate's index when no
\* earlier candidate of the batch fails a check.
C3_DuplicateFails ==
  \A p \in Requests :
     (Finished(imp[p]) /\ Len(imp[p].orders) <= 20) =>
        \A i \in 1..Len(imp[p].orders) :
           EqualsExisting(imp[p], i) =>
              /\ imp[p].pc = "failed"
              /\ imp[p].calls = <<>>
              /\ store[p] = <<>>
              /\ FirstFailing(imp[p], i) =>
                    imp[p].error =
                      [kind |-> "is a duplicate transaction", index |-> i - 1]

C3_Witness ==
  \E p \in Requests :
     /\ imp[p].pc = "failed"
     /\ imp[p].error = [kind |-> "is a duplicate transaction", index |-> 1]
     /\ \E k \in 1..Len(imp[p].existingOrders) :
           imp[p].existingOrders[k].date # parseISO(imp[p].orders[2].date)

\* C4 (as stated): every candidate of a batch of at most 20 whose
\* (dataSource, symbol) has no entry in the lookup result makes the import
\* fail with an invalid-symbol error carrying that candidate's index, symbol
\* and dataSource.
C4_Original ==
  \A p \in Requests :
     (Finished(imp[p]) /\ Len(imp[p].orders) <= 20) =>
        \A i \in 1..Len(imp[p].orders) :
           ~InLookup(imp[p], i) =>
              /\ imp[p].pc = "failed"
              /\ imp[p].error =
                   [kind |-> "symbol is not valid for the specified data source",
                    index |-> i - 1, symbol |-> imp[p].orders[i].symbol,
                    dataSource |-> imp[p].orders[i].dataSource]

\* C4 (amended): a batch of at most 20 with a candidate whose (dataSource,
\* symbol) has no entry in the lookup result fails; the error is the
\* invalid-symbol error carrying that candidate's index, symbol and
\* dataSource when no earlier candidate fails a check and the candidate is
\* not itself a duplicate.
C4_InvalidSymbolFails ==
  \A p \in Requests :
     (Finished(imp[p]) /\ Len(imp[p].orders) <= 20) =>
        \A i \in 1..Len(imp[p].orders) :
           ~InLookup(imp[p], i) =>
              /\ imp[p].pc = "failed"
              /\ (FirstFailing(imp[p], i) /\ ~EqualsExisting(imp[p], i)) =>
                    imp[p].error =
                      [kind |-> "symbol is not valid for the specified data source",
                       index |-> i - 1, symbol |-> imp[p].orders[i].symbol,
                       dataSource |-> imp[p].orders[i].dataSource]

C4_Witness ==
  \E p \in Requests :
     /\ imp[p].pc = "failed"
     /\ imp[p].error =
          [kind |-> "symbol is not valid for the specified data source",
           index |-> 1, symbol |-> "XXXX", dataSource |-> "YAHOO"]

\* C5: an import of N <= 20 orders that returns has made exactly N
\* createOrder calls, in input order, the k-th with the k-th candidate's
\* fields, account and the import's user, and has persisted exactly those N
\* records.
C5_ValidBatchPersisted ==
  \A p \in Requests :
     imp[p].pc = "done" =>
        /\ Len(imp[p].orders) <= 20
        /\ imp[p].calls =
             [k \in 1..Len(imp[p].orders) |->
                ExpectedCall(imp[p].orders[k], imp[p].userId)]
        /\ store[p] =
             [k \in 1..Len(imp[p].orders) |->
                ExpectedRow(imp[p].orders[k], imp[p].userId)]

C5_Witness ==
  \E p \in Requests :
     /\ imp[p].pc = "done"
     /\ Len(imp[p].orders) = 2
     /\ imp[p].orders[1] # imp[p].orders[2]
     /\ imp[p].orders[2].accountId = "a2"

\* C6: no two persisted orders of the same user share the dedup tuple.
C6_DedupInvariant ==
  LET rows == AllRows(store, Requests)
  IN \A a, b \in 1..Len(rows) :
        (a # b /\ rows[a].userId = rows[b].userId) =>
           RowTuple(rows[a]) # RowTuple(rows[b])

\* C10: when the createOrder call for the candidate at index k rejects, the
\* import fails with that error, the records of candidates 0..k-1 stay
\* persisted and no createOrder call is made for the candidates after k.
C10_WritePhaseNotAtomic ==
  \A p \in Requests :
     imp[p].error = [kind |-> "createOrder rejected"] =>
        LET k == imp[p].index
        IN /\ imp[p].pc = "failed"
           /\ k < Len(imp[p].orders)
           /\ store[p] =
                [j \in 1..k |-> ExpectedRow(imp[p].orders[j], imp[p].userId)]
           /\ imp[p].calls =
                [j \in 1..(k + 1) |->
                   ExpectedCall(imp[p].orders[j], imp[p].userId)]

C10_Witness ==
  \E p \in Requests :
     /\ imp[p].error = [kind |-> "createOrder rejected"]
     /\ Len(store[p]) >= 1
     /\ Len(imp[p].calls) < Len(imp[p].orders)

----------------------------------------------------------------------------
(* Info: claims *)

\* The six counters, as the claims name them.
SixCounters ==
  <<"countActiveUsers(1)", "countActiveUsers(7)", "countActiveUsers(30)",
    "countNewUsers(30)", "countGitHubContributors", "countGitHubStargazers">>

\* The counters a call ran, in order.
CountersRun ==
  [i \in 1..Len(lastCall.counterCalls) |-> lastCall.counterCalls[i].counter]

\* The statistics object holds what the six counters of the call returned.
BuiltFromCounters(statistics) ==
  /\ CountersRun = SixCounters
  /\ statistics =
       [activeUsers1d |-> lastCall.counterCalls[1].returned,
        activeUsers7d |-> lastCall.counterCalls[2].returned,
        activeUsers30d |-> lastCall.counterCalls[3].returned,
        newUsers30d |-> lastCall.counterCalls[4].returned,
        gitHubContributors |-> lastCall.counterCalls[5].returned,
        gitHubStargazers |-> lastCall.counterCalls[6].returned]

\* Two statistics results read the same in every field.
SameStatistics(a, b) ==
  \A k \in {"activeUsers1d", "activeUsers7d", "activeUsers30d",
            "newUsers30d", "gitHubContributors", "gitHubStargazers"} :
     Prop(a, k) = Prop(b, k)

\* The last call ran getStatistics with the flag on and its cache read
\* returned.
ReadCache == lastCall.statisticsEnabled /\ lastCall.read # <<>>

\* C7: with the statistics flag on, a call that finds no entry under
\* STATISTICS runs the six counters and writes its result under that key
\* before it returns; a call that reads the entry such a call wrote returns
\* the same result, runs no counter and writes nothing.
C7_StatisticsCached ==
  /\ (ReadCache /\ ~lastCall.read[1].rejected
        /\ lastCall.read[1].text = [kind |-> "absent"]) =>
        /\ response # NoResponse
        /\ response.statistics # Undefined
        /\ BuiltFromCounters(response.statistics[1])
        /\ lastCall.cacheWrites =
             <<[key |-> "STATISTICS",
                value |-> JSONstringify(response.statistics[1])]>>
        /\ computed.statistics = response.statistics[1]
  /\ (ReadCache /\ ~lastCall.read[1].rejected
        /\ computed # NothingComputed
        /\ lastCall.read[1].text = computed.written) =>
        /\ response # NoResponse
        /\ response.statistics # Undefined
        /\ SameStatistics(response.statistics[1], computed.statistics)
        /\ lastCall.counterCalls = <<>>
        /\ lastCall.cacheWrites = <<>>

\* A second call returned the cached result although the users have changed
\* since, and a GitHub counter of the first result was undefined.
C7_Witness ==
  /\ ReadCache /\ ~lastCall.read[1].rejected
  /\ computed # NothingComputed
  /\ lastCall.read[1].text = computed.written
  /\ lastCall.cacheWrites = <<>>
  /\ computed.statistics.gitHubContributors = Undefined
  /\ computed.statistics.activeUsers30d # Def(countActiveUsers(env, 30))

TagOf(f) ==
  CASE f = "ENABLE_FEATURE_BLOG" -> "enableBlog"
    [] f = "ENABLE_FEATURE_IMPORT" -> "enableImport"
    [] f = "ENABLE_FEATURE_SOCIAL_LOGIN" -> "enableSocialLogin"
    [] f = "ENABLE_FEATURE_STATISTICS" -> "enableStatistics"
    [] f = "ENABLE_FEATURE_SUBSCRIPTION" -> "enableSubscription"

Without(tags, t) == SelectSeq(tags, LAMBDA x : x # t)
Has(tags, t) == \E i \in 1..Len(tags) : tags[i] = t

\* on and off are the responses with flag f on and off, all else equal.
FlagFrame(f, on, off) ==
  /\ on.platforms = off.platforms
  /\ on.currencies = off.currencies
  /\ on.demoAuthToken = off.demoAuthToken
  /\ on.lastDataGathering = off.lastDataGathering
  /\ on.primaryDataSource = off.primaryDataSource
  /\ Without(on.globalPermissions, TagOf(f))
       = Without(off.globalPermissions, TagOf(f))
  /\ Has(on.globalPermissions, TagOf(f))
  /\ ~Has(off.globalPermissions, TagOf(f))
  /\ IF f = "ENABLE_FEATURE_STATISTICS"
     THEN on.statistics # Undefined /\ off.statistics = Undefined
     ELSE on.statistics = off.statistics
  /\ IF f = "ENABLE_FEATURE_SUBSCRIPTION"
     THEN /\ on.stripePublicKey # Undefined /\ off.stripePublicKey = Undefined
          /\ on.subscriptions # Undefined /\ off.subscriptions = Undefined
     ELSE /\ on.stripePublicKey = off.stripePublicKey
          /\ on.subscriptions = off.subscriptions

\* C9: under every assignment of the five flags and in every state of the
\* collaborators, flipping one flag changes in the response of get() that
\* flag's permission tag (for statistics also the statistics field, for
\* subscription also stripePublicKey and the subscriptions field) and
\* nothing else.
C9_FlagFrame ==
  \A f \in Flags :
     FlagFrame(f, get([config EXCEPT ![f] = TRUE], cache, env).info,
                  get([config EXCEPT ![f] = FALSE], cache, env).info)

\* get() has answered with statistics and a subscription while the flags of
\* both were on.
C9_Witness ==
  /\ response # NoResponse
  /\ config["ENABLE_FEATURE_STATISTICS"]
  /\ config["ENABLE_FEATURE_SUBSCRIPTION"]
  /\ ~config["ENABLE_FEATURE_BLOG"]
  /\ response = get(config, cache, env).info
  /\ response.statistics # Undefined
  /\ response.subscriptions = Def(<<[couponId |-> <<"c1">>]>>)

====
